---- MODULE Spec2Model ----
(***************************************************************************)
(* Model of contributing/notebooks/synphot/ndd_streaming.py: the streaming *)
(* reference-data installer (install_files) and its tar path filter        *)
(* (_safe_members).                                                        *)
(*                                                                         *)
(* Strings (paths, environment values, member names) are sequences of      *)
(* one-character strings, so that normalisation, joining and prefix tests  *)
(* are computed the way the Python code computes them.                     *)
(***************************************************************************)
EXTENDS Integers, Sequences, FiniteSets, TLC

\* ------------------------------------------------------------------------
\* Bounds of the model
\* ------------------------------------------------------------------------
\* longest member name enumerated exhaustively by the filter specification
MaxNameLen == 6
\* number of install_files calls made in one process
MaxCalls == 2
\* number of failures (network errors, HTTP error statuses, archive read
\* errors, failed temp-file removals) the environment injects in one process
MaxFaults == 2

\* ------------------------------------------------------------------------
\* String helpers (Python str operations used by the code)
\* ------------------------------------------------------------------------
SEP == "/"

\* s.startswith(p)
StartsWith(s, p) == /\ Len(s) >= Len(p)
                    /\ SubSeq(s, 1, Len(p)) = p

\* s.lstrip(os.sep)
RECURSIVE LStripSep(_)
LStripSep(s) == IF s # <<>> /\ s[1] = SEP THEN LStripSep(Tail(s)) ELSE s

\* s.split("/")
RECURSIVE Split(_)
Split(s) ==
    IF s = <<>> THEN << <<>> >>
    ELSE LET r == Split(SubSeq(s, 1, Len(s) - 1))
             c == s[Len(s)]
         IN  IF c = SEP THEN Append(r, <<>>)
             ELSE [r EXCEPT ![Len(r)] = Append(@, c)]

\* "/".join(comps)
RECURSIVE JoinSep(_)
JoinSep(comps) ==
    IF comps = <<>> THEN <<>>
    ELSE IF Len(comps) = 1 THEN comps[1]
    ELSE comps[1] \o <<SEP>> \o JoinSep(Tail(comps))

DOT == <<".">>
DOTDOT == <<".", ".">>

\* os.path.isabs (posixpath): the path starts with a separator
IsAbs(s) == StartsWith(s, <<SEP>>)

\* posixpath.normpath's number of kept leading slashes: 0, 1, or 2 (exactly
\* two leading slashes are preserved, three or more collapse to one)
InitialSlashes(path) ==
    IF ~StartsWith(path, <<SEP>>) THEN 0
    ELSE IF StartsWith(path, <<SEP, SEP>>) /\ ~StartsWith(path, <<SEP, SEP, SEP>>)
         THEN 2 ELSE 1

\* posixpath.normpath's loop over the components, left to right
RECURSIVE NormComps(_, _)
NormComps(comps, initial_slashes) ==
    IF comps = <<>> THEN <<>>
    ELSE LET new_comps == NormComps(SubSeq(comps, 1, Len(comps) - 1), initial_slashes)
             comp == comps[Len(comps)]
         IN  IF comp = <<>> \/ comp = DOT THEN new_comps
             ELSE IF \/ comp # DOTDOT
                     \/ (initial_slashes = 0 /\ new_comps = <<>>)
                     \/ (new_comps # <<>> /\ new_comps[Len(new_comps)] = DOTDOT)
                  THEN Append(new_comps, comp)
             ELSE IF new_comps # <<>>
                  THEN SubSeq(new_comps, 1, Len(new_comps) - 1)
             ELSE new_comps

\* os.path.normpath (posixpath)
NormPath(path) ==
    IF path = <<>> THEN DOT
    ELSE LET n == InitialSlashes(path)
             body == JoinSep(NormComps(Split(path), n))
             res == (IF n = 2 THEN <<SEP, SEP>> ELSE IF n = 1 THEN <<SEP>> ELSE <<>>) \o body
         IN  IF res = <<>> THEN DOT ELSE res

\* ------------------------------------------------------------------------
\* _safe_members
\* ------------------------------------------------------------------------
\* norm = os.path.normpath(name).lstrip(os.sep)
NormName(name) == LStripSep(NormPath(name))

\* the member is skipped: norm.startswith("..") or os.path.isabs(name)
IsSkippedAbsOnly(name) == IsAbs(name)
IsSkipped(name) == StartsWith(NormName(name), DOTDOT) \/ IsAbs(name)

\* the whole generator applied to a sequence of member names: the names
\* yielded, each rewritten to its normalised form, in order
RECURSIVE SafeMembers(_)
SafeMembers(names) ==
    IF names = <<>> THEN <<>>
    ELSE IF IsSkipped(names[1]) THEN SafeMembers(Tail(names))
    ELSE <<NormName(names[1])>> \o SafeMembers(Tail(names))

\* ------------------------------------------------------------------------
\* Values
\* ------------------------------------------------------------------------
\* what os.environ.get returns for a missing variable
None == <<"<None>">>
\* the reserved value "***unset***"
Sentinel == <<"*", "*", "*", "u", "n", "s", "e", "t", "*", "*", "*">>
\* a path set by the user before the call ("/custom/path", shortened)
Custom == <<"/", "c">>
\* the value of $HOME
Home == <<"/", "h">>
\* the names of the environment variables the configurations use
EnvVars == {"V1", "V2"}
\* the archive URLs the configurations use
Urls == {"u1", "u2", "u3"}

\* a Python dict as a function with a growing domain
EmptyDict == [k \in {} |-> None]
Put(d, k, v) == [x \in (DOMAIN d) \cup {k} |-> IF x = k THEN v ELSE d[x]]
\* dict.get(k): None when the key is missing
Get(d, k) == IF k \in DOMAIN d THEN d[k] ELSE None

\* os.path.join(a, b)
PathJoin(a, b) ==
    IF IsAbs(b) THEN b
    ELSE IF a = <<>> \/ a[Len(a)] = SEP THEN a \o b
    ELSE a \o <<SEP>> \o b

\* ------------------------------------------------------------------------
\* The decoded configuration: yf = yaml.safe_load(...)["install_files"], a
\* sequence of package entries in document order.  An install_path template
\* is a sequence of characters in which "${HOME}" and a leading "~" are
\* single tokens.
\* ------------------------------------------------------------------------
Pkg(var, urls, tpl, dpath) ==
    [environment_variable |-> var, data_url |-> urls,
     install_path |-> tpl, data_path |-> dpath]

TplHome == <<"${HOME}", "/", "r">>
TplTilde == <<"~", "/", "r", "/">>

Configs == {
    \* two packages, distinct variables, shared install directory
    << Pkg("V1", <<"u1", "u2">>, TplHome, <<"d">>),
       Pkg("V2", <<"u3">>, TplTilde, <<"a">>) >>,
    \* two packages naming the same variable
    << Pkg("V1", <<"u1">>, TplHome, <<"d">>),
       Pkg("V1", <<"u3">>, TplHome, <<"a">>) >>,
    \* a package with an empty URL list
    << Pkg("V1", <<>>, TplHome, <<"d">>),
       Pkg("V2", <<"u3">>, TplHome, <<"a">>) >>,
    \* a second entry without its data_path field
    << Pkg("V1", <<"u1">>, TplHome, <<"d">>),
       [environment_variable |-> "V2", data_url |-> <<"u3">>,
        install_path |-> TplHome] >>,
    \* a first entry without its install_path field
    << [environment_variable |-> "V1", data_url |-> <<"u1">>, data_path |-> <<"d">>],
       Pkg("V2", <<"u3">>, TplHome, <<"a">>) >>,
    \* a first entry without its data_url field
    << [environment_variable |-> "V1", install_path |-> TplHome, data_path |-> <<"d">>],
       Pkg("V2", <<"u3">>, TplHome, <<"a">>) >>,
    \* a first entry without its environment_variable field
    << [data_url |-> <<"u1">>, install_path |-> TplHome, data_path |-> <<"d">>],
       Pkg("V2", <<"u3">>, TplHome, <<"a">>) >>
  }

RequiredFields == {"environment_variable", "data_url", "install_path", "data_path"}

\* the tar members served at each URL, in archive order; a member named "l"
\* is a symbolic link (see IsSym), every other member a regular file
ArchiveSets == {
    [u \in Urls |->
        CASE u = "u1" -> << <<"d", "/", "a">> >>
          [] u = "u2" -> << <<"d", "/", ".", "/", "d">>, <<".", ".", "/", "a", "/", "a">> >>
          [] u = "u3" -> << <<"a", "/", "a">> >>],
    [u \in Urls |->
        CASE u = "u1" -> << <<".", ".", "d", "/", "a">>, <<"/", "d", "/", "a">> >>
          [] u = "u2" -> << >>
          [] u = "u3" -> << <<"a">> >>],
    [u \in Urls |->
        CASE u = "u1" -> << <<"a", "/", "d">> >>
          [] u = "u2" -> << <<"d", "/", "/", "a">> >>
          [] u = "u3" -> << <<"l">>, <<"l", "/", "a">> >>]
  }

\* the files and directories on disk before the first call
InitialFs == {
    {},
    { <<"/", "h", "/", "r">>, <<"/", "h", "/", "r", "/", "d">> },
    { <<"/", "h", "/", "r">>, <<"/", "h", "/", "r", "/", "d">>,
      <<"/", "h", "/", "r", "/", "d", "/", "a">> }
  }

\* ------------------------------------------------------------------------
\* _expand_install_path
\* ------------------------------------------------------------------------
\* s.rstrip("/")
RECURSIVE RStripSep(_)
RStripSep(s) ==
    IF s # <<>> /\ s[Len(s)] = SEP THEN RStripSep(SubSeq(s, 1, Len(s) - 1)) ELSE s

\* path_template.replace("${HOME}", os.environ.get("HOME", "")); the
\* templates of the model hold no other $VAR reference, so os.path.expandvars
\* leaves the result as it is
RECURSIVE ReplaceHome(_, _)
ReplaceHome(tpl, home) ==
    IF tpl = <<>> THEN <<>>
    ELSE (IF tpl[1] = "${HOME}" THEN home ELSE <<tpl[1]>>) \o ReplaceHome(Tail(tpl), home)

\* os.path.expanduser: a leading "~" alone or before "/" becomes $HOME
\* without its trailing separators
ExpandUser(path, env) ==
    IF /\ path # <<>> /\ path[1] = "~"
       /\ (Len(path) = 1 \/ path[2] = SEP)
       /\ "HOME" \in DOMAIN env
    THEN LET r == RStripSep(env["HOME"]) \o Tail(path)
         IN  IF r = <<>> THEN <<SEP>> ELSE r
    ELSE path

ExpandInstallPath(tpl, env) ==
    ExpandUser(ReplaceHome(tpl, IF "HOME" \in DOMAIN env THEN env["HOME"] ELSE <<>>), env)

\* ------------------------------------------------------------------------
\* _already_installed, extraction
\* ------------------------------------------------------------------------
\* os.path.isdir(final_path) and any(os.scandir(final_path)): some path on
\* disk lies strictly below final_path
AlreadyInstalledIsDir(fsys, final_path) == RStripSep(final_path) \in fsys
AlreadyInstalledNever(fsys, final_path) == FALSE
AlreadyInstalledTwoEntries(fsys, final_path) ==
    \E f, g \in fsys : /\ f # g
                        /\ StartsWith(f, RStripSep(final_path) \o <<SEP>>)
                        /\ StartsWith(g, RStripSep(final_path) \o <<SEP>>)
                        /\ Len(f) > Len(RStripSep(final_path)) + 1
                        /\ Len(g) > Len(RStripSep(final_path)) + 1
AlreadyInstalled(fsys, final_path) ==
    \E f \in fsys : /\ StartsWith(f, RStripSep(final_path) \o <<SEP>>)
                    /\ Len(f) > Len(RStripSep(final_path)) + 1

\* the paths on disk strictly below dir
Below(fsys, dir) ==
    { f \in fsys : /\ Len(f) > Len(RStripSep(dir)) + 1
                    /\ SubSeq(f, 1, Len(RStripSep(dir)) + 1) = RStripSep(dir) \o <<SEP>> }

\* the directories above a path, the path included ("/h/r/d/a" gives
\* "/h", "/h/r", "/h/r/d", "/h/r/d/a")
Ancestors(path) ==
    { SubSeq(path, 1, i) : i \in { j \in 2..Len(path) : j = Len(path) \/ path[j + 1] = SEP } }

\* os.makedirs(path, exist_ok=True)
MakeDirs(fsys, path) == fsys \cup Ancestors(RStripSep(NormPath(path)))

\* where tar.extract writes a member: os.path.join(dest_dir, member.name),
\* resolved by the file system
Target(dest_dir, name) == NormPath(PathJoin(dest_dir, name))

\* TarInfo.issym() and TarInfo.linkname: the members named "l" are symbolic
\* links to the user's home directory; so are the entries named "l" on disk
LinkTarget == Home
IsSym(name) == name = <<"l">>
IsSymPath(path) == Len(path) >= 2 /\ SubSeq(path, Len(path) - 1, Len(path)) = <<SEP, "l">>

\* where a write to path lands: the file system follows a symbolic link
\* among the directories above it
Physical(fsys, path) ==
    LET above == { p \in Ancestors(path) \ {path} : p \in fsys /\ IsSymPath(p) }
    IN  IF above = {} THEN path
        ELSE LET p == CHOOSE q \in above : \A r \in above : Len(q) <= Len(r)
             IN  NormPath(LinkTarget \o SubSeq(path, Len(p) + 1, Len(path)))

\* tar.extractall(path=dest_dir, members=...) of the given member names, one
\* after the other
RECURSIVE ExtractUpTo(_, _, _, _)
ExtractUpTo(fsys, dest_dir, names, n) ==
    IF n = 0 THEN fsys
    ELSE LET before == ExtractUpTo(fsys, dest_dir, names, n - 1)
         IN  before \cup Ancestors(Physical(before, Target(dest_dir, names[n])))
ExtractAll(fsys, dest_dir, names) == ExtractUpTo(fsys, dest_dir, names, Len(names))

\* tar.extractall(path=dest, members=_safe_members(tar)) over the first k
\* members of the archive (all of them when the archive is read to its end)
ExtractSafe(fsys, dest_dir, members, k) ==
    ExtractAll(fsys, dest_dir, SafeMembers(SubSeq(members, 1, k)))

\* ------------------------------------------------------------------------
\* State
\* ------------------------------------------------------------------------
VARIABLES
    yf,          \* the decoded configuration (fixed during a behaviour)
    archive,     \* URL -> the members of the tar served there (fixed)
    environ,     \* os.environ
    fs,          \* the paths (files and directories) on disk
    tmpfiles,    \* the temporary files on disk
    tmp_seq,     \* how many temporary files the process has created
    unremoved,   \* the temporary files whose os.remove raised OSError
    result,      \* install_files' result dict
    pc,          \* where install_files stands
    pkg,         \* index in yf of the package of the current iteration
    url_i,       \* index in data_urls of the URL of the current iteration
    tmp_path,    \* the fallback's tmp_path (0 before it is assigned)
    exc,         \* the exception install_files raised, "none" if none
    calls,       \* install_files calls started so far
    returned,    \* the dicts returned so far, each with the number of its call
    requests,    \* log: every session.get for an archive
    mkdirs,      \* log: every os.makedirs
    envwrites,   \* log: every os.environ[...] = ...
    resolved,    \* log: the branch each package iteration took
    faults,      \* failures injected so far
    extractions, \* log: every extractall, how far it came and what it skipped
    fs0,         \* the disk when the process started (fixed)
    env0,        \* os.environ when the process started (fixed)
    req,         \* the session.get in progress: its attempts and its Retry counters
    net,         \* how the network fails: "steady" or "flaky" (fixed)
    twin,        \* the same process started with every "***unset***" variable absent
    members,     \* the member names handed to _safe_members (filter specification)
    mi,          \* how many of them the generator has consumed
    yielded      \* the members it has yielded: index in members, rewritten name

progvars == <<environ, fs, tmpfiles, tmp_seq, unremoved, result, pc, pkg, url_i, tmp_path, exc,
              calls, returned, requests, mkdirs, envwrites, resolved, faults, req, extractions>>
filtervars == <<members, mi, yielded>>
vars == <<yf, archive, net, fs0, env0, progvars, twin, filtervars>>

\* the process state as a record: the transitions below are functions on it
cur == [environ |-> environ, fs |-> fs, tmpfiles |-> tmpfiles, tmp_seq |-> tmp_seq,
        unremoved |-> unremoved,
        result |-> result, pc |-> pc, pkg |-> pkg, url_i |-> url_i,
        tmp_path |-> tmp_path, exc |-> exc, calls |-> calls, returned |-> returned,
        requests |-> requests, mkdirs |-> mkdirs, envwrites |-> envwrites,
        resolved |-> resolved, faults |-> faults, req |-> req,
        extractions |-> extractions]

Commit(n) ==
    /\ environ' = n.environ /\ fs' = n.fs /\ tmpfiles' = n.tmpfiles
    /\ tmp_seq' = n.tmp_seq /\ unremoved' = n.unremoved /\ result' = n.result /\ pc' = n.pc /\ pkg' = n.pkg
    /\ url_i' = n.url_i /\ tmp_path' = n.tmp_path /\ exc' = n.exc
    /\ calls' = n.calls /\ returned' = n.returned /\ requests' = n.requests
    /\ mkdirs' = n.mkdirs /\ envwrites' = n.envwrites /\ resolved' = n.resolved
    /\ faults' = n.faults /\ req' = n.req /\ extractions' = n.extractions

\* ------------------------------------------------------------------------
\* _requests_session: the Retry policy mounted on the session
\* ------------------------------------------------------------------------
RetryTotal == 5
RetryConnect == 5
RetryRead == 5
StatusForcelist == {429, 500, 502, 503, 504}
AllowedMethods == {"GET", "HEAD"}
\* Retry is built without respect_retry_after_header, so the default applies:
\* a response of one of these statuses that carries Retry-After is retried too
RetryAfterStatusCodes == {413, 429, 503}

\* what one HTTP attempt ends in: a response, or no response because the
\* connection could not be made or broke before the response head was read
Response(status, retry_after) ==
    [kind |-> "response", status |-> status, retry_after |-> retry_after]
ConnectFailure == [kind |-> "connect_error", status |-> 0, retry_after |-> FALSE]
ReadFailure == [kind |-> "read_error", status |-> 0, retry_after |-> FALSE]
NoResult == [kind |-> "none", status |-> 0, retry_after |-> FALSE]
Ok200 == Response(200, FALSE)
AttemptResults ==
    {Ok200, Response(404, FALSE), Response(503, FALSE), Response(413, TRUE),
     ConnectFailure, ReadFailure}
\* a steady network answers every attempt of one request the same way:
\* with success, with an error status, or not at all
SteadyResults == {Ok200, Response(404, FALSE), ConnectFailure}

\* a request: the attempts made, the counters of its Retry object and the
\* result of the last attempt
NoRequest ==
    [attempts |-> 0, total |-> RetryTotal, connect |-> RetryConnect, read |-> RetryRead,
     last |-> NoResult]

\* Retry.is_retry: is a response of this status to be retried
IsRetryNever(method, status_code, has_retry_after, total) == FALSE
IsRetry(method, status_code, has_retry_after, total) ==
    /\ method \in AllowedMethods
    /\ \/ status_code \in StatusForcelist
       \/ total # 0 /\ has_retry_after /\ status_code \in RetryAfterStatusCodes

\* Retry.increment: every retry takes one from total, and one from the
\* counter of its cause
Increment(q, r) ==
    [q EXCEPT !.total = @ - 1,
              !.connect = IF r.kind = "connect_error" THEN @ - 1 ELSE @,
              !.read = IF r.kind = "read_error" THEN @ - 1 ELSE @]

\* Retry.is_exhausted
IsExhaustedAtZero(q) == q.total <= 0 \/ q.connect <= 0 \/ q.read <= 0
IsExhausted(q) == q.total < 0 \/ q.connect < 0 \/ q.read < 0

\* resp.raise_for_status()
RaiseForStatus(status) == IF 400 <= status /\ status < 600 THEN "HTTPError" ELSE "ok"

\* one attempt of session.get(url) and what becomes of the request: it is
\* sent again ("retry"), or session.get returns a response on which
\* raise_for_status is called, or session.get raises. raise_on_status=False:
\* when the retries are exhausted on a status, the last response is returned
SessionGet(q, r) ==
    LET q1 == [q EXCEPT !.attempts = @ + 1, !.last = r]
        q2 == Increment(q1, r)
    IN  IF r.kind = "response"
        THEN IF IsRetry("GET", r.status, r.retry_after, q.total) /\ ~IsExhausted(q2)
             THEN [req |-> q2, outcome |-> "retry"]
             ELSE [req |-> q1, outcome |-> RaiseForStatus(r.status)]
        ELSE IF ~IsExhausted(q2)
             THEN [req |-> q2, outcome |-> "retry"]
             ELSE [req |-> q1, outcome |-> "ConnectionError"]

\* ------------------------------------------------------------------------
\* install_files, as transitions of the process state s
\* ------------------------------------------------------------------------
\* the values of lines 122-125 for the package of the current iteration
EnvVarOf(i) == yf[i].environment_variable
DataUrls(i) == yf[i].data_url
InstallPath(s, i) == ExpandInstallPath(yf[i].install_path, s.environ)
FinalPath(s, i) == PathJoin(InstallPath(s, i), yf[i].data_path)

\* an exception leaves install_files: nothing catches it
RaiseAlt(s, e) == [s EXCEPT !.exc = e, !.pc = "loop", !.pkg = @ + 1]
RaiseAndReturn(s, e) ==
    [s EXCEPT !.exc = e, !.pc = "returned",
              !.returned = Append(@, [call |-> s.calls, report |-> s.result])]
Raise(s, e) == [s EXCEPT !.pc = "raised", !.exc = e]

\* "if pre_set and pre_set != '***unset***'"
IsPreSetNoSentinel(pre_set) == pre_set # None /\ pre_set # <<>>
IsPreSetInverted(pre_set) == pre_set # None /\ pre_set # <<>> /\ pre_set = Sentinel
IsPreSetNever(pre_set) == FALSE
IsPreSet(pre_set) == pre_set # None /\ pre_set # <<>> /\ pre_set # Sentinel

\* os.environ[envvar] = value
SetEnvNot(s, i, value) == s
SetEnvHome(s, i, value) ==
    [s EXCEPT !.environ = Put(@, "HOME", value),
              !.envwrites = Append(@, [call |-> s.calls, pkg |-> i,
                                       var |-> "HOME", val |-> value])]
SetEnv(s, i, value) ==
    [s EXCEPT !.environ = Put(@, EnvVarOf(i), value),
              !.envwrites = Append(@, [call |-> s.calls, pkg |-> i,
                                       var |-> EnvVarOf(i), val |-> value])]

\* result[envvar] = {"path": path, "pre_installed": flag}
SetResultOnlyNew(s, i, path, flag) ==
    IF flag THEN s
    ELSE [s EXCEPT !.result = Put(@, EnvVarOf(i), [path |-> path, pre_installed |-> flag])]
SetResult(s, i, path, flag) ==
    [s EXCEPT !.result = Put(@, EnvVarOf(i), [path |-> path, pre_installed |-> flag])]

\* os.makedirs(install_path, exist_ok=True)
DoMakeDirs(s, i) ==
    [s EXCEPT !.fs = MakeDirs(@, InstallPath(s, i)),
              !.mkdirs = Append(@, [call |-> s.calls, pkg |-> i])]

\* the branch log keeps, of each iteration: the branch taken, the value the
\* variable had and the paths that were on disk below the final data directory
Note(s, i, branch, pre_set) ==
    [s EXCEPT !.resolved = Append(@, [call |-> s.calls, pkg |-> i, branch |-> branch,
                                      pre_set |-> pre_set,
                                      entries |-> Below(s.fs, FinalPath(s, i))])]

\* the call: session set up, YAML loaded, result = {}
CanCall(s) == s.pc \in {"idle", "returned", "raised"} /\ s.calls < MaxCalls
Call(s) == [s EXCEPT !.calls = @ + 1, !.result = EmptyDict, !.pkg = 1, !.url_i = 0,
                     !.tmp_path = 0, !.exc = "none", !.pc = "loop", !.req = NoRequest]

\* the for loop over the packages is exhausted: return result
CanReturn(s) == s.pc = "loop" /\ s.pkg > Len(yf)
Return(s) == [s EXCEPT !.pc = "returned",
                       !.returned = Append(@, [call |-> s.calls, report |-> s.result])]

\* one iteration's head, lines 122-150: the fields are read, then the branch
\* is chosen among pre-set, already installed and needs install
CanResolve(s) == s.pc = "loop" /\ s.pkg <= Len(yf)
Resolve(s) ==
    LET i == s.pkg IN
    IF ~(RequiredFields \subseteq DOMAIN yf[i]) THEN Raise(s, "KeyError")
    ELSE LET pre_set == Get(s.environ, EnvVarOf(i))
             final_path == FinalPath(s, i)
         IN  IF IsPreSet(pre_set)
             THEN [SetResult(Note(s, i, "pre_set", pre_set), i, pre_set, TRUE)
                      EXCEPT !.pkg = @ + 1]
             ELSE IF AlreadyInstalled(s.fs, final_path)
             THEN [SetResult(SetEnv(DoMakeDirs(Note(s, i, "installed", pre_set), i),
                                    i, final_path), i, final_path, TRUE)
                      EXCEPT !.pkg = @ + 1]
             ELSE [DoMakeDirs(Note(s, i, "install", pre_set), i)
                      EXCEPT !.url_i = 1, !.pc = "urls"]

\* a failure the environment may inject, while the budget lasts
Fault(s) == [s EXCEPT !.faults = @ + 1]
MayFail(s) == s.faults < MaxFaults

LogRequest(s, via) ==
    [s EXCEPT !.requests = Append(@, [call |-> s.calls, pkg |-> s.pkg,
                                      url |-> DataUrls(s.pkg)[s.url_i], via |-> via,
                                      attempts |-> s.req.attempts,
                                      status |-> s.req.last.status])]

\* what a GET can end in: a response with a success status, a response with
\* an error status (raise_for_status raises), no response (the retries are
\* exhausted or the request timed out)
GetOutcomes == {"ok", "HTTPError", "ConnectionError"}

\* line 84-85: session.get(url, stream=True) and resp.raise_for_status()
CanStreamGet(s, o) ==
    /\ s.pc = "urls" /\ s.url_i <= Len(DataUrls(s.pkg))
    /\ (o # "ok" => MayFail(s))
StreamGet(s, o) ==
    IF o = "ok" THEN [LogRequest(s, "stream") EXCEPT !.pc = "stream"]
    ELSE Raise(Fault(LogRequest(s, "stream")), o)

\* the extraction log keeps, of each extractall: the URL and the path taken,
\* how it ended, how many requests had been issued by then and, when it read
\* the archive to its end, which members the filter skipped
LogExtraction(s, via, o) ==
    LET u == DataUrls(s.pkg)[s.url_i]
    IN  [s EXCEPT !.extractions =
            Append(@, [call |-> s.calls, pkg |-> s.pkg, url |-> u, via |-> via,
                       kind |-> o.kind,
                       skipped |-> IF o.kind = "ok"
                                   THEN { n \in 1..o.k : IsSkipped(archive[u][n]) }
                                   ELSE {},
                       after |-> Len(s.requests)])]

\* the members of an archive that come out of the filter as symbolic links
LinkMembers(u) ==
    { n \in 1..Len(archive[u]) : ~IsSkipped(archive[u][n]) /\ IsSym(NormName(archive[u][n])) }

\* how an extraction can end: the archive is read to its end ("ok"), or the
\* read fails after k members were handled: tarfile.ReadError (not a tar the
\* mode can parse, or truncated) or an error of the connection under it.
\* extractall is called without filter=: a tarfile whose default is the
\* trusting one creates a link member as stored, one whose default is the
\* 'data' filter raises tarfile.FilterError at a link that leaves dest_dir
ExtractOutcomes(u) ==
    {[kind |-> "ok", k |-> Len(archive[u])]}
      \cup [kind : {"ReadError", "ConnectionError"}, k : 0..Len(archive[u])]
      \cup [kind : {"FilterError"}, k : { n - 1 : n \in LinkMembers(u) }]

\* lines 88-89: tarfile.open(fileobj=resp.raw, mode="r|*") and
\* tar.extractall(path=dest_dir, members=_safe_members(tar)); line 157 catches
\* tarfile.ReadError only
CanStreamExtract(s, o) ==
    /\ s.pc = "stream"
    /\ o \in ExtractOutcomes(DataUrls(s.pkg)[s.url_i])
    /\ (o.kind # "ok" => MayFail(s))
StreamExtractAnyError(s, o) ==
    LET u == DataUrls(s.pkg)[s.url_i]
        t == [LogExtraction(s, "stream", o)
                 EXCEPT !.fs = ExtractSafe(@, InstallPath(s, s.pkg), archive[u], o.k),
                        !.req = NoRequest]
    IN  IF o.kind = "ok" THEN [t EXCEPT !.url_i = @ + 1, !.pc = "urls"]
        ELSE [Fault(t) EXCEPT !.pc = "fallback_get"]
StreamExtract(s, o) ==
    LET u == DataUrls(s.pkg)[s.url_i]
        t == [LogExtraction(s, "stream", o)
                 EXCEPT !.fs = ExtractSafe(@, InstallPath(s, s.pkg), archive[u], o.k),
                        !.req = NoRequest]
    IN  CASE o.kind = "ok" -> [t EXCEPT !.url_i = @ + 1, !.pc = "urls"]
          [] o.kind = "ReadError" -> [Fault(t) EXCEPT !.pc = "fallback_get"]
          [] OTHER -> Raise(Fault(t), o.kind)

\* lines 162-164: the second session.get, raise_for_status, and the creation
\* of the NamedTemporaryFile(delete=False)
CanFallbackGet(s, o) ==
    /\ s.pc = "fallback_get"
    /\ (o # "ok" => MayFail(s))
FallbackGet(s, o) ==
    IF o = "ok"
    THEN [LogRequest(s, "fallback") EXCEPT !.tmp_seq = @ + 1,
                                           !.tmpfiles = @ \cup {s.tmp_seq + 1},
                                           !.pc = "fallback_write"]
    ELSE Raise(Fault(LogRequest(s, "fallback")), o)

\* the request log keeps, of each session.get, the number of its attempts
\* and the status of the response it ended with (0: it ended with none)
\* the attempts of a session.get: which results the network may give next
MayAnswer(s, r) ==
    /\ r \in (IF net = "steady" THEN SteadyResults ELSE AttemptResults)
    /\ (net = "steady" /\ s.req.attempts > 0 => r = s.req.last)

\* line 84-85 attempt by attempt: a request that needed a retry counts as
\* one injected failure
CanStreamAttempt(s, r) ==
    /\ CanStreamGet(s, IF r = Ok200 THEN "ok" ELSE "ConnectionError")
    /\ (s.req.attempts > 0 => MayFail(s))
    /\ MayAnswer(s, r)
StreamAttempt(s, r) ==
    LET g == SessionGet(s.req, r)
        t == [s EXCEPT !.req = g.req]
    IN  IF g.outcome = "retry" THEN t
        ELSE IF g.outcome = "ok" /\ g.req.attempts > 1 THEN Fault(StreamGet(t, "ok"))
        ELSE StreamGet(t, g.outcome)

\* lines 162-163 attempt by attempt
CanFallbackAttempt(s, r) ==
    /\ CanFallbackGet(s, IF r = Ok200 THEN "ok" ELSE "ConnectionError")
    /\ (s.req.attempts > 0 => MayFail(s))
    /\ MayAnswer(s, r)
FallbackAttempt(s, r) ==
    LET g == SessionGet(s.req, r)
        t == [s EXCEPT !.req = g.req]
    IN  IF g.outcome = "retry" THEN t
        ELSE IF g.outcome = "ok" /\ g.req.attempts > 1 THEN Fault(FallbackGet(t, "ok"))
        ELSE FallbackGet(t, g.outcome)

\* lines 165-168: the body is written chunk by chunk, then tmp_path = tmp.name;
\* iter_content raises when the connection breaks, and the with-blocks close
\* the file without removing it
WriteOutcomes == {"ok", "ConnectionError"}
CanFallbackWrite(s, o) ==
    /\ s.pc = "fallback_write"
    /\ (o # "ok" => MayFail(s))
FallbackWrite(s, o) ==
    IF o = "ok" THEN [s EXCEPT !.tmp_path = s.tmp_seq, !.pc = "fallback_extract",
                               !.req = NoRequest]
    ELSE Raise(Fault([s EXCEPT !.req = NoRequest]), o)

\* os.remove(tmp_path) in the finally clause; an OSError is swallowed
RemoveTmp(s, removed) ==
    IF removed THEN [s EXCEPT !.tmpfiles = @ \ {s.tmp_path}]
    ELSE [Fault(s) EXCEPT !.unremoved = @ \cup {s.tmp_path}]

\* lines 169-176: tarfile.open(tmp_path, mode="r:*"), extractall through
\* _safe_members, and the finally clause
FallbackOutcomes(u) ==
    [kind : {"ok"}, k : {Len(archive[u])}, removed : BOOLEAN]
      \cup [kind : {"ReadError"}, k : 0..Len(archive[u]), removed : BOOLEAN]
      \cup [kind : {"FilterError"}, k : { n - 1 : n \in LinkMembers(u) }, removed : BOOLEAN]
CanFallbackExtract(s, o) ==
    /\ s.pc = "fallback_extract"
    /\ o \in FallbackOutcomes(DataUrls(s.pkg)[s.url_i])
    /\ s.faults + (IF o.kind = "ok" THEN 0 ELSE 1) + (IF o.removed THEN 0 ELSE 1)
          <= MaxFaults
FallbackExtractNothing(s, o) ==
    LET t == RemoveTmp(s, o.removed)
    IN  IF o.kind = "ok" THEN [t EXCEPT !.url_i = @ + 1, !.pc = "urls"]
        ELSE Raise(Fault(t), o.kind)
FallbackExtract(s, o) ==
    LET u == DataUrls(s.pkg)[s.url_i]
        t == RemoveTmp([LogExtraction(s, "fallback", o)
                           EXCEPT !.fs = ExtractSafe(@, InstallPath(s, s.pkg), archive[u], o.k)],
                       o.removed)
    IN  IF o.kind = "ok" THEN [t EXCEPT !.url_i = @ + 1, !.pc = "urls"]
        ELSE Raise(Fault(t), o.kind)

\* lines 179-184: every URL is done; export the variable, record the result
CanFinishInstallEarly(s) == s.pc = "urls"
CanFinishInstall(s) == s.pc = "urls" /\ s.url_i > Len(DataUrls(s.pkg))
FinishInstall(s) ==
    LET final_path == FinalPath(s, s.pkg)
    IN  [SetResult(SetEnv(s, s.pkg, final_path), s.pkg, final_path, FALSE)
            EXCEPT !.pkg = @ + 1, !.pc = "loop"]

\* ------------------------------------------------------------------------
\* Initial states
\* ------------------------------------------------------------------------
\* the process before install_files is called, with the given environment
\* and disk
Start(env, disk) ==
    [environ |-> env, fs |-> disk, tmpfiles |-> {}, tmp_seq |-> 0, unremoved |-> {},
     result |-> EmptyDict, pc |-> "idle", pkg |-> 0, url_i |-> 0, tmp_path |-> 0,
     exc |-> "none", calls |-> 0, returned |-> <<>>, requests |-> <<>>,
     mkdirs |-> <<>>, envwrites |-> <<>>, resolved |-> <<>>, faults |-> 0,
     req |-> NoRequest, extractions |-> <<>>]

\* the environments a process may start with: HOME is set; each variable of
\* the configuration is absent, empty, the sentinel, or a path of the user's
\* (at most one of the two variables is present at the start)
\* the first package of the configuration lists more than one URL
SeveralUrls(cfg) == "data_url" \in DOMAIN cfg[1] /\ Len(cfg[1].data_url) > 1

PreValues == {None, <<>>, Sentinel, Custom}
InitialEnvs ==
    { [v \in {"HOME"} \cup { x \in EnvVars : pre[x] # None } |->
          IF v = "HOME" THEN Home ELSE pre[v]] :
      pre \in { q \in [EnvVars -> PreValues] : q["V1"] = None \/ q["V2"] = None } }

\* the same environment with every variable that holds the sentinel removed
Unset(env) == [v \in { x \in DOMAIN env : env[x] # Sentinel } |-> env[v]]

Init ==
    /\ yf \in Configs
    /\ archive \in ArchiveSets
    /\ \E env \in InitialEnvs, disk \in InitialFs :
          \* a populated disk is explored with the first archive set only,
          \* and a package of several URLs from an empty disk with archives
          \* that all have members
          /\ disk = {} \/ archive["u1"] = << <<"d", "/", "a">> >>
          /\ SeveralUrls(yf) => disk = {} /\ archive["u2"] # <<>>
          /\ environ = env /\ fs = disk
          /\ twin = Start(Unset(env), disk)
    /\ tmpfiles = {} /\ tmp_seq = 0 /\ unremoved = {} /\ result = EmptyDict /\ pc = "idle"
    /\ pkg = 0 /\ url_i = 0 /\ tmp_path = 0 /\ exc = "none" /\ calls = 0
    /\ returned = <<>> /\ requests = <<>> /\ mkdirs = <<>> /\ envwrites = <<>>
    /\ resolved = <<>> /\ faults = 0 /\ req = NoRequest /\ extractions = <<>>
    /\ fs0 = fs /\ env0 = environ
    /\ net = "steady"
    /\ members = <<>> /\ mi = 0 /\ yielded = <<>>

\* ------------------------------------------------------------------------
\* Actions: each steps the process and, with the same outcome, its twin
\* ------------------------------------------------------------------------
Fixed == UNCHANGED <<yf, archive, net, fs0, env0, filtervars>>

CallStep ==
    /\ CanCall(cur) /\ Commit(Call(cur))
    /\ twin' = IF CanCall(twin) THEN Call(twin) ELSE twin
    /\ Fixed

ResolveStep ==
    /\ CanResolve(cur) /\ Commit(Resolve(cur))
    /\ twin' = IF CanResolve(twin) THEN Resolve(twin) ELSE twin
    /\ Fixed

ReturnStep ==
    /\ CanReturn(cur) /\ Commit(Return(cur))
    /\ twin' = IF CanReturn(twin) THEN Return(twin) ELSE twin
    /\ Fixed

StreamGetStep ==
    \E r \in AttemptResults :
        /\ CanStreamAttempt(cur, r) /\ Commit(StreamAttempt(cur, r))
        /\ twin' = IF CanStreamAttempt(twin, r) THEN StreamAttempt(twin, r) ELSE twin
        /\ Fixed

StreamExtractStep ==
    /\ pc = "stream"
    /\ \E o \in ExtractOutcomes(DataUrls(pkg)[url_i]) :
        /\ CanStreamExtract(cur, o) /\ Commit(StreamExtract(cur, o))
        /\ twin' = IF CanStreamExtract(twin, o) THEN StreamExtract(twin, o) ELSE twin
        /\ Fixed

FallbackGetStep ==
    \E r \in AttemptResults :
        /\ CanFallbackAttempt(cur, r) /\ Commit(FallbackAttempt(cur, r))
        /\ twin' = IF CanFallbackAttempt(twin, r) THEN FallbackAttempt(twin, r) ELSE twin
        /\ Fixed

FallbackWriteStep ==
    \E o \in WriteOutcomes :
        /\ CanFallbackWrite(cur, o) /\ Commit(FallbackWrite(cur, o))
        /\ twin' = IF CanFallbackWrite(twin, o) THEN FallbackWrite(twin, o) ELSE twin
        /\ Fixed

FallbackExtractStep ==
    /\ pc = "fallback_extract"
    /\ \E o \in FallbackOutcomes(DataUrls(pkg)[url_i]) :
        /\ CanFallbackExtract(cur, o) /\ Commit(FallbackExtract(cur, o))
        /\ twin' = IF CanFallbackExtract(twin, o) THEN FallbackExtract(twin, o) ELSE twin
        /\ Fixed

FinishInstallStep ==
    /\ CanFinishInstall(cur) /\ Commit(FinishInstall(cur))
    /\ twin' = IF CanFinishInstall(twin) THEN FinishInstall(twin) ELSE twin
    /\ Fixed

Next ==
    \/ CallStep
    \/ ResolveStep
    \/ ReturnStep
    \/ StreamGetStep
    \/ StreamExtractStep
    \/ FallbackGetStep
    \/ FallbackWriteStep
    \/ FallbackExtractStep
    \/ FinishInstallStep

Spec == Init /\ [][Next]_vars

\* the same program on a flaky network, where the attempts of one request
\* may fail in different ways: the configuration whose packages share a
\* variable, nothing installed
InitRetry ==
    /\ yf \in Configs /\ RequiredFields \subseteq DOMAIN yf[1]
    /\ yf[1].environment_variable = yf[2].environment_variable
    /\ archive \in ArchiveSets /\ archive["u1"] = << <<"d", "/", "a">> >>
    /\ environ = [v \in {"HOME"} |-> Home] /\ fs = {}
    /\ twin = Start(environ, fs)
    /\ tmpfiles = {} /\ tmp_seq = 0 /\ unremoved = {} /\ result = EmptyDict /\ pc = "idle"
    /\ pkg = 0 /\ url_i = 0 /\ tmp_path = 0 /\ exc = "none" /\ calls = 0
    /\ returned = <<>> /\ requests = <<>> /\ mkdirs = <<>> /\ envwrites = <<>>
    /\ resolved = <<>> /\ faults = 0 /\ req = NoRequest /\ extractions = <<>>
    /\ fs0 = fs /\ env0 = environ
    /\ net = "flaky"
    /\ members = <<>> /\ mi = 0 /\ yielded = <<>>

SpecRetry == InitRetry /\ [][Next]_vars

\* ------------------------------------------------------------------------
\* The filter alone: _safe_members driven over bounded inputs
\* ------------------------------------------------------------------------
Alphabet == {"/", ".", "a"}
Names == UNION { [1..n -> Alphabet] : n \in 0..MaxNameLen }

\* the member names the documentation and the specification give as
\* examples, over the alphabet: "../../a/a", "/a/a", "a/../../a", "a//a/./a",
\* "..a/a"
Examples == {
    <<".", ".", "/", ".", ".", "/", "a", "/", "a">>,
    <<"/", "a", "/", "a">>,
    <<"a", "/", ".", ".", "/", ".", ".", "/", "a">>,
    <<"a", "/", "/", "a", "/", ".", "/", "a">>,
    <<".", ".", "a", "/", "a">>
  }

InitFilter ==
    /\ yf \in Configs /\ "data_url" \in DOMAIN yf[1] /\ yf[1].data_url = <<>>
    /\ archive \in ArchiveSets /\ archive["u2"] = <<>>
    /\ environ = [v \in {"HOME"} |-> Home] /\ fs = {}
    /\ twin = Start(environ, fs)
    /\ tmpfiles = {} /\ tmp_seq = 0 /\ unremoved = {} /\ result = EmptyDict /\ pc = "idle"
    /\ pkg = 0 /\ url_i = 0 /\ tmp_path = 0 /\ exc = "none" /\ calls = 0
    /\ returned = <<>> /\ requests = <<>> /\ mkdirs = <<>> /\ envwrites = <<>>
    /\ resolved = <<>> /\ faults = 0 /\ req = NoRequest /\ extractions = <<>>
    /\ fs0 = fs /\ env0 = environ
    /\ net = "steady"
    /\ members \in { <<n>> : n \in Names } \cup { <<e, n>> : n \in Names, e \in Examples }
    /\ mi = 0 /\ yielded = <<>>

\* one turn of the for loop of _safe_members: the member is skipped ...
SkipMember ==
    /\ mi < Len(members)
    /\ IsSkipped(members[mi + 1])
    /\ mi' = mi + 1
    /\ UNCHANGED <<yf, archive, net, fs0, env0, progvars, twin, members, yielded>>

\* ... or renamed to its normalised form and yielded
YieldMember ==
    /\ mi < Len(members)
    /\ ~IsSkipped(members[mi + 1])
    /\ mi' = mi + 1
    /\ yielded' = Append(yielded, [member |-> mi + 1, name |-> NormName(members[mi + 1])])
    /\ UNCHANGED <<yf, archive, net, fs0, env0, progvars, twin, members>>

NextFilter == SkipMember \/ YieldMember

SpecFilter == InitFilter /\ [][NextFilter]_vars

\* ------------------------------------------------------------------------
\* Properties of the filter (SpecFilter)
\* ------------------------------------------------------------------------
\* the stored path escapes: it is absolute, or its normalised form begins
\* with a parent-directory segment
FirstSegment(path) == Split(path)[1]
IsUnsafe(name) == IsAbs(name) \/ FirstSegment(NormPath(name)) = DOTDOT
HasParentSegment(path) == \E i \in 1..Len(Split(path)) : Split(path)[i] = DOTDOT
WasYielded(i) == \E j \in 1..Len(yielded) : yielded[j].member = i

\* C1: no member whose stored path is absolute, or whose normalised path
\* starts with a ".." segment, is yielded; every yielded member carries a
\* normalised relative name without a leading separator and without a ".."
\* segment anywhere.
C1_UnsafeNeverYielded ==
    /\ \A i \in 1..mi : IsUnsafe(members[i]) => ~WasYielded(i)
    /\ \A j \in 1..Len(yielded) :
          /\ ~IsAbs(yielded[j].name)
          /\ ~HasParentSegment(yielded[j].name)
          /\ NormPath(yielded[j].name) = yielded[j].name

\* both members of <<"a/../../a", "a/a">> are consumed: the first is dropped,
\* the second yielded
C1_Witness ==
    /\ members = << <<"a", "/", ".", ".", "/", ".", ".", "/", "a">>, <<"a", "/", "a">> >>
    /\ mi = 2
    /\ yielded = << [member |-> 2, name |-> <<"a", "/", "a">>] >>

\* C2: every member with a safe relative path (not absolute, not starting
\* with a ".." segment once normalised) is yielded, renamed to its
\* normalised form; this includes names whose first component only begins
\* with two dots.
C2_SafeAlwaysYielded ==
    \A i \in 1..mi :
        ~IsUnsafe(members[i]) =>
            \E j \in 1..Len(yielded) :
                yielded[j] = [member |-> i, name |-> NormPath(members[i])]

\* ------------------------------------------------------------------------
\* Properties of install_files (Spec)
\* ------------------------------------------------------------------------
Finished == pc \in {"returned", "raised"}
\* the branch log's entry of package i in call c, if any
EntriesOf(c, i) == { k \in 1..Len(resolved) : resolved[k].call = c /\ resolved[k].pkg = i }
\* the dict call c returned, if it returned
Returns(c) == { k \in 1..Len(returned) : returned[k].call = c }
\* a variable's value counts as set: present, not empty, not the sentinel
IsSetValue(v) == v # None /\ v # <<>> /\ v # Sentinel
\* some path on disk lies strictly below dir
DirNonEmpty(dir) ==
    \E f \in fs : Len(f) > Len(RStripSep(dir)) + 1
                  /\ SubSeq(f, 1, Len(RStripSep(dir)) + 1) = RStripSep(dir) \o <<SEP>>

\* C3: when install_files has returned or raised, no temporary file of the
\* buffered fallback is left on disk (a file whose os.remove itself failed
\* aside: that failure is swallowed by design).
C3_TempFilesRemoved == Finished => tmpfiles \subseteq unremoved

\* C4: a package that took the needs-install branch in a call that returned
\* is reported with pre_installed = False by that call and, by the next call
\* if it returns too, with pre_installed = True and the same path, and the
\* next call issues no request for it.
NeedsInstallThenPreInstalled(k) ==
    LET e == resolved[k]
        var == EnvVarOf(e.pkg)
    IN  \A a \in Returns(e.call) :
          /\ returned[a].report[var].pre_installed = FALSE
          /\ \A b \in Returns(e.call + 1) :
                /\ returned[b].report[var].pre_installed = TRUE
                /\ returned[b].report[var].path = returned[a].report[var].path
                /\ \A r \in 1..Len(requests) :
                      ~(requests[r].call = e.call + 1 /\ requests[r].pkg = e.pkg)
C4_TwoRuns ==
    \A k \in 1..Len(resolved) :
        resolved[k].branch = "install" => NeedsInstallThenPreInstalled(k)

\* C4, amended: the same, for a package whose variable no later package of
\* the configuration names.
NamedLater(i) == \E j \in (i + 1)..Len(yf) :
                    "environment_variable" \in DOMAIN yf[j] /\ EnvVarOf(j) = EnvVarOf(i)
C4_TwoRunsOwnVariable ==
    \A k \in 1..Len(resolved) :
        (resolved[k].branch = "install" /\ ~NamedLater(resolved[k].pkg))
            => NeedsInstallThenPreInstalled(k)

\* two calls returned; the first installed package 1, the second found it set
C4_Witness ==
    /\ pc = "returned" /\ Len(returned) = 2 /\ calls = 2
    /\ resolved[1].branch = "install" /\ resolved[1].pkg = 1 /\ ~NamedLater(1)
    /\ Len(requests) > 0
    /\ returned[2].report[EnvVarOf(1)].pre_installed = TRUE

\* C5: a package whose variable is present with value val when its iteration
\* starts takes the pre-set branch: the entry reports val with
\* pre_installed = True, and the iteration issues no request, creates no
\* directory and writes no variable.
PreSetShortCircuit(k) ==
    LET e == resolved[k] IN
    /\ e.branch = "pre_set"
    /\ (pc = "loop" /\ k = Len(resolved) /\ pkg = e.pkg + 1 /\ calls = e.call)
          => result[EnvVarOf(e.pkg)] = [path |-> e.pre_set, pre_installed |-> TRUE]
    /\ \A a \in Returns(e.call) :
          returned[a].report[EnvVarOf(e.pkg)] = [path |-> e.pre_set, pre_installed |-> TRUE]
    /\ \A r \in 1..Len(requests) : ~(requests[r].call = e.call /\ requests[r].pkg = e.pkg)
    /\ \A r \in 1..Len(mkdirs) : ~(mkdirs[r].call = e.call /\ mkdirs[r].pkg = e.pkg)
    /\ \A r \in 1..Len(envwrites) : ~(envwrites[r].call = e.call /\ envwrites[r].pkg = e.pkg)

\* C5 as claimed: for any value other than the sentinel
C5_PreSetAnyValue ==
    \A k \in 1..Len(resolved) :
        (resolved[k].pre_set # None /\ resolved[k].pre_set # Sentinel) => PreSetShortCircuit(k)

\* C5, amended: for any non-empty value other than the sentinel; a variable
\* present but empty does not take the pre-set branch
C5_PreSetNonEmptyValue ==
    \A k \in 1..Len(resolved) :
        /\ (resolved[k].pre_set # None /\ resolved[k].pre_set # <<>>
              /\ resolved[k].pre_set # Sentinel) => PreSetShortCircuit(k)
        /\ resolved[k].pre_set = <<>> => resolved[k].branch # "pre_set"

\* the first call returned after package 1 was found with the user's path
C5_Witness ==
    /\ pc = "returned" /\ calls = 1
    /\ resolved[1].pre_set = Custom /\ resolved[1].branch = "pre_set"
    /\ returned[1].report[EnvVarOf(1)].path = Custom

\* C6: the process started with the sentinel in its variables and the one
\* started with those variables absent run alike under the same outcomes:
\* same position, same branches, same requests, same disk, same result and
\* returned dicts, and the same value of every variable whose package has
\* been resolved; a variable not yet written differs only as sentinel
\* against absent.
C6_SentinelAsUnset ==
    /\ twin.pc = pc /\ twin.pkg = pkg /\ twin.url_i = url_i /\ twin.exc = exc
    /\ twin.calls = calls
    /\ Len(twin.resolved) = Len(resolved)
    /\ \A k \in 1..Len(resolved) :
          /\ twin.resolved[k].branch = resolved[k].branch
          /\ twin.resolved[k].pkg = resolved[k].pkg
          /\ twin.resolved[k].call = resolved[k].call
    /\ twin.requests = requests /\ twin.mkdirs = mkdirs /\ twin.envwrites = envwrites
    /\ twin.fs = fs /\ twin.tmpfiles = tmpfiles
    /\ twin.result = result /\ twin.returned = returned
    /\ \A v \in EnvVars :
          \/ Get(twin.environ, v) = Get(environ, v)
          \/ Get(environ, v) = Sentinel /\ Get(twin.environ, v) = None
    /\ \A v \in DOMAIN result : Get(twin.environ, v) = Get(environ, v)
    /\ \A a \in 1..Len(returned) : \A v \in DOMAIN returned[a].report :
          Get(twin.environ, v) = Get(environ, v)

\* a call returned after installing package 1, whose variable held the
\* sentinel in this process and was absent in the twin
C6_Witness ==
    /\ pc = "returned" /\ calls = 1
    /\ resolved[1].pre_set = Sentinel /\ twin.resolved[1].pre_set = None
    /\ resolved[1].branch = "install" /\ Len(requests) > 0
    /\ environ[EnvVarOf(1)] = twin.environ[EnvVarOf(1)]

\* C7: whenever install_files has exported a package's variable (by the
\* already-installed branch or at the end of the needs-install branch), the
\* exported final data directory has at least one entry.
C7_InstalledNonEmpty ==
    \A w \in 1..Len(envwrites) : DirNonEmpty(envwrites[w].val)

\* C7, amended: it has at least one entry when the already-installed branch
\* exported it, or when some member the filter yields, in an archive of the
\* package, is extracted below it.
StrictlyBelow(path, dir) ==
    /\ Len(path) > Len(RStripSep(dir)) + 1
    /\ SubSeq(path, 1, Len(RStripSep(dir)) + 1) = RStripSep(dir) \o <<SEP>>
PopulatedByArchives(i) ==
    \E n \in 1..Len(DataUrls(i)) :
        LET kept == SafeMembers(archive[DataUrls(i)[n]])
        IN  \E m \in 1..Len(kept) :
                StrictlyBelow(Target(InstallPath(cur, i), kept[m]), FinalPath(cur, i))
C7_InstalledNonEmptyWhenPopulated ==
    \A w \in 1..Len(envwrites) :
        LET e == envwrites[w] IN
        (\/ \E k \in EntriesOf(e.call, e.pkg) : resolved[k].branch = "installed"
         \/ PopulatedByArchives(e.pkg))
            => DirNonEmpty(e.val)

\* package 1 was installed from an archive that populates its directory and
\* package 2 was found on disk by the already-installed branch
C7_Witness ==
    /\ pc = "returned" /\ Len(envwrites) = 2 /\ Len(resolved) = 2
    /\ resolved[1].branch = "install" /\ envwrites[1].pkg = 1
    /\ Len(requests) > 0 /\ PopulatedByArchives(1)
    /\ resolved[2].branch = "installed" /\ envwrites[2].pkg = 2
    /\ DirNonEmpty(envwrites[1].val) /\ DirNonEmpty(envwrites[2].val)

\* C8: once a package's variable is set (found set, or written, in its
\* iteration), it equals that package's final data directory.
C8_VarEqualsFinalPath ==
    \A k \in 1..Len(resolved) :
        LET e == resolved[k] IN
        (\/ e.branch = "pre_set"
         \/ \E w \in 1..Len(envwrites) : envwrites[w].call = e.call /\ envwrites[w].pkg = e.pkg)
            => Get(environ, EnvVarOf(e.pkg)) = FinalPath(cur, e.pkg)

\* C8, amended: a value found set at a package's iteration, and a value
\* install_files wrote, stays the variable's value in every later state;
\* a written value is the final data directory of the package whose
\* iteration wrote it.
C8_SetValueKept ==
    /\ \A k \in 1..Len(resolved) :
          IsSetValue(resolved[k].pre_set)
              => Get(environ, EnvVarOf(resolved[k].pkg)) = resolved[k].pre_set
    /\ \A w \in 1..Len(envwrites) :
          /\ envwrites[w].val = FinalPath(cur, envwrites[w].pkg)
          /\ Get(environ, envwrites[w].var) = envwrites[w].val

\* two packages name one variable: the first wrote it, the second found it
\* set, and it still holds the first one's directory
C8_Witness ==
    /\ pc = "returned" /\ Len(yf) = 2 /\ NamedLater(1)
    /\ Len(envwrites) = 1 /\ envwrites[1].pkg = 1
    /\ Len(resolved) >= 2 /\ resolved[2].branch = "pre_set"
    /\ environ[EnvVarOf(2)] = FinalPath(cur, 1)
    /\ environ[EnvVarOf(2)] # FinalPath(cur, 2)

\* C9: a returned dict has as many entries as the configuration has
\* packages.
C9_OneEntryPerPackage ==
    \A a \in 1..Len(returned) : Cardinality(DOMAIN returned[a].report) = Len(yf)

\* C9, amended: a returned dict has exactly one entry per distinct
\* environment-variable name of the configuration.
C9_OneEntryPerVariable ==
    \A a \in 1..Len(returned) :
        DOMAIN returned[a].report = { EnvVarOf(i) : i \in 1..Len(yf) }

\* a call over two packages naming one variable returned a single entry
C9_Witness ==
    /\ pc = "returned" /\ Len(yf) = 2 /\ NamedLater(1)
    /\ Cardinality(DOMAIN returned[1].report) = 1

\* C10: when a fetch or an extraction of package P fails fatally, the call
\* ends with that error: nothing is returned for the call, P's variable is
\* neither written nor set, and no package after P is touched.
FetchErrors == {"HTTPError", "ConnectionError", "ReadError"}
C10_FatalStops ==
    exc \in FetchErrors =>
        /\ pc = "raised"
        /\ Returns(calls) = {}
        /\ ~IsSetValue(Get(environ, EnvVarOf(pkg)))
        /\ \A w \in 1..Len(envwrites) :
              ~(envwrites[w].call = calls /\ envwrites[w].pkg >= pkg)
        /\ \A r \in 1..Len(requests) : ~(requests[r].call = calls /\ requests[r].pkg > pkg)
        /\ \A r \in 1..Len(mkdirs) : ~(mkdirs[r].call = calls /\ mkdirs[r].pkg > pkg)
        /\ \A r \in 1..Len(resolved) : ~(resolved[r].call = calls /\ resolved[r].pkg > pkg)

\* the first of two packages failed in the buffered fallback
C10_Witness ==
    /\ pc = "raised" /\ exc = "ReadError" /\ pkg = 1 /\ Len(yf) = 2
    /\ \E r \in 1..Len(requests) : requests[r].via = "fallback"

\* ------------------------------------------------------------------------
\* Retries
\* ------------------------------------------------------------------------
RequestsOf(c) == { k \in DOMAIN requests : requests[k].call = c }
IsLastOfItsCall(k) == \A j \in RequestsOf(requests[k].call) : j <= k
Retrying == pc \in {"urls", "fallback_get"} /\ req.attempts > 0
OnlyStatusFailures(q) == q.connect = RetryConnect /\ q.read = RetryRead

\* C11: a GET answered with a retryable status N times and then with
\* success is used as the archive for every N the retries allow, and a
\* package whose GETs needed retries is installed when the call returns; a
\* GET ends on a retryable status only after its failures exceeded the
\* retries (attempt RetryTotal + 1); a GET that ends without a success
\* response raises out of install_files (no return for that call, no later
\* request in it), creates no temporary file, and its response is never
\* handed to the extraction.
C11_RetryOutcome ==
    /\ pc \in {"stream", "fallback_write"} => req.last = Ok200
    /\ pc = "raised" /\ exc = "HTTPError" /\ req.last.status \in StatusForcelist
          => req.attempts = RetryTotal + 1
    /\ \A k \in DOMAIN requests :
          /\ requests[k].status \in StatusForcelist => requests[k].attempts = RetryTotal + 1
          /\ requests[k].status # 200 =>
                /\ IsLastOfItsCall(k)
                /\ Returns(requests[k].call) = {}
                /\ requests[k].call = calls =>
                      pc = "raised" /\ exc \in {"HTTPError", "ConnectionError"}
          /\ Returns(requests[k].call) # {} =>
                \E w \in DOMAIN envwrites :
                    /\ envwrites[w].call = requests[k].call
                    /\ envwrites[w].pkg = requests[k].pkg
    /\ tmp_seq = Cardinality({ k \in DOMAIN requests :
                                 requests[k].via = "fallback" /\ requests[k].status = 200 })

\* one call ended on a 503 after the retries were used up, and in the next
\* call a GET has succeeded after two answers with a retryable status
C11_Witness ==
    /\ \E k \in DOMAIN requests :
          requests[k].status = 503 /\ requests[k].attempts = RetryTotal + 1
    /\ pc = "stream" /\ req.attempts = 3 /\ OnlyStatusFailures(req)

\* C12 as stated: a GET makes at most 5 attempts, the first one included,
\* and is sent again only after a connection failure, a read failure or a
\* status of the list.
C12_AtMostFiveAttempts ==
    /\ req.attempts <= RetryTotal
    /\ \A k \in DOMAIN requests : requests[k].attempts <= RetryTotal
    /\ Retrying =>
          \/ req.last.kind \in {"connect_error", "read_error"}
          \/ req.last.status \in StatusForcelist

\* C12 (amended): a GET makes at most RetryTotal + 1 = 6 attempts, the first
\* one and at most 5 retries, of which at most 5 follow a connection failure
\* and at most 5 a read failure; a GET that ends on a status of the list or
\* without a response has made all 6; it is sent again only after a
\* connection failure, a read failure, a status of the list, or a 413 that
\* carries Retry-After; no method other than GET and HEAD is retried on a
\* status.
C12_AtMostFiveRetries ==
    /\ req.attempts <= RetryTotal + 1
    /\ req.total >= 0 /\ req.connect >= 0 /\ req.read >= 0
    /\ \A k \in DOMAIN requests :
          /\ requests[k].attempts <= RetryTotal + 1
          /\ requests[k].status \in StatusForcelist \cup {0}
                => requests[k].attempts = RetryTotal + 1
    /\ Retrying =>
          \/ req.last.kind \in {"connect_error", "read_error"}
          \/ req.last.status \in StatusForcelist
          \/ req.last.status = 413 /\ req.last.retry_after
    /\ \A m \in {"POST", "PUT", "DELETE"}, st \in StatusForcelist :
          ~IsRetry(m, st, TRUE, RetryTotal)

\* a GET that took six attempts, failures of each cause among them
C12_Witness ==
    /\ pc = "raised" /\ req.attempts = RetryTotal + 1
    /\ req.connect < RetryConnect /\ req.read < RetryRead
    /\ req.total = 0

\* ------------------------------------------------------------------------
\* Streaming and fallback
\* ------------------------------------------------------------------------
\* every call so far has returned, but for the one in progress
NoCallRaised ==
    /\ exc = "none"
    /\ Len(returned) + (IF pc \in {"idle", "returned"} THEN 0 ELSE 1) = calls
Complete(e) == e.kind = "ok"

\* the disk that results when every archive parses in streaming mode: the
\* packages resolved so far, each URL extracted whole through the filter
RECURSIVE StreamedUrls(_, _, _, _)
StreamedUrls(fsys, dest_dir, urls, n) ==
    IF n = 0 THEN fsys
    ELSE ExtractAll(StreamedUrls(fsys, dest_dir, urls, n - 1), dest_dir,
                    SafeMembers(archive[urls[n]]))
RECURSIVE StreamedDisk(_)
StreamedDisk(n) ==
    IF n = 0 THEN fs0
    ELSE LET e == resolved[n]
             prev == StreamedDisk(n - 1)
             dest_dir == InstallPath(cur, e.pkg)
         IN  CASE e.branch = "pre_set" -> prev
               [] e.branch = "installed" -> MakeDirs(prev, dest_dir)
               [] OTHER -> StreamedUrls(MakeDirs(prev, dest_dir), dest_dir,
                                        DataUrls(e.pkg), Len(DataUrls(e.pkg)))

\* C13: whichever of its archives went through the buffered fallback after
\* failing to parse in streaming mode (at any member), a run in which no
\* call raised leaves on disk exactly the paths that streaming every
\* archive leaves; and every extraction that read its archive to the end,
\* streaming or fallback, skipped the same members of it: those the filter
\* rejects.
C13_FallbackSameAsStreaming ==
    /\ pc \in {"loop", "returned"} /\ NoCallRaised => fs = StreamedDisk(Len(resolved))
    /\ \A n \in DOMAIN extractions :
          Complete(extractions[n]) =>
              extractions[n].skipped =
                  { m \in 1..Len(archive[extractions[n].url]) :
                        IsSkipped(archive[extractions[n].url][m]) }

\* a call returned after an archive of two members, one of them unsafe,
\* failed in streaming mode and went through the fallback
C13_Witness ==
    /\ pc = "returned" /\ NoCallRaised
    /\ \E n, m \in DOMAIN extractions :
          /\ extractions[n].via = "stream" /\ extractions[n].kind = "ReadError"
          /\ Len(archive[extractions[n].url]) = 2
          /\ extractions[m].via = "fallback" /\ Complete(extractions[m])
          /\ extractions[m].url = extractions[n].url
          /\ extractions[m].skipped # {}

\* ------------------------------------------------------------------------
\* The needs-install branch
\* ------------------------------------------------------------------------
TookBranch(c, i, branch) ==
    \E k \in DOMAIN resolved :
        resolved[k].call = c /\ resolved[k].pkg = i /\ resolved[k].branch = branch
\* where in the extraction log URL number j of package i was extracted to
\* its end in call c
ExtractedAt(c, i, j) ==
    { n \in DOMAIN extractions :
        /\ extractions[n].call = c /\ extractions[n].pkg = i
        /\ extractions[n].url = DataUrls(i)[j] /\ Complete(extractions[n]) }
InstallingNow == pc \in {"urls", "stream", "fallback_get", "fallback_write", "fallback_extract"}

\* C14: a variable written in the needs-install branch, and the report
\* entry with pre_installed = FALSE, exist only when every URL of the
\* package has been extracted to its end in that call; while a URL is being
\* requested or extracted, every URL before it in the list has been
\* extracted to its end, in list order, before the requests that followed,
\* and the branch has not written the variable yet.
C14_WriteAfterAllUrls ==
    /\ \A w \in DOMAIN envwrites :
          TookBranch(envwrites[w].call, envwrites[w].pkg, "install") =>
              \A j \in 1..Len(DataUrls(envwrites[w].pkg)) :
                  ExtractedAt(envwrites[w].call, envwrites[w].pkg, j) # {}
    /\ \A v \in DOMAIN result :
          ~result[v].pre_installed =>
              \E i \in 1..Len(yf) :
                  /\ TookBranch(calls, i, "install") /\ EnvVarOf(i) = v
                  /\ \A j \in 1..Len(DataUrls(i)) : ExtractedAt(calls, i, j) # {}
    /\ InstallingNow =>
          /\ ~\E w \in DOMAIN envwrites :
                envwrites[w].call = calls /\ envwrites[w].pkg = pkg
          /\ \A j \in 1..Len(DataUrls(pkg)) :
                j < url_i => ExtractedAt(calls, pkg, j) # {}
          /\ \A j \in 1..Len(DataUrls(pkg)) :
                (j >= url_i /\ (j > url_i \/ pc \in {"urls", "stream"}))
                    => ExtractedAt(calls, pkg, j) = {}
    /\ \A k \in DOMAIN requests :
          \A j \in 1..Len(DataUrls(requests[k].pkg)) :
              (requests[k].url = DataUrls(requests[k].pkg)[j] /\ j > 1) =>
                  \E n \in ExtractedAt(requests[k].call, requests[k].pkg, j - 1) :
                      extractions[n].after < k

\* a package with two URLs has been installed: both were extracted, then
\* the variable was written
C14_Witness ==
    /\ pc = "returned"
    /\ \E w \in DOMAIN envwrites :
          /\ TookBranch(envwrites[w].call, envwrites[w].pkg, "install")
          /\ Len(DataUrls(envwrites[w].pkg)) = 2
          /\ envwrites[w].val = FinalPath(cur, envwrites[w].pkg)

\* ------------------------------------------------------------------------
\* When the fallback runs
\* ------------------------------------------------------------------------
SameUrl(a, b) == a.call = b.call /\ a.pkg = b.pkg /\ a.url = b.url
FallbackRequests == { k \in DOMAIN requests : requests[k].via = "fallback" }
\* the current iteration is that of the logged record e
IsCurrent(e) ==
    /\ e.call = calls /\ e.pkg = pkg
    /\ url_i \in 1..Len(DataUrls(pkg)) /\ e.url = DataUrls(pkg)[url_i]

\* C15: the fallback of a URL is started exactly when the streaming
\* extraction of that URL ended in tarfile.ReadError: each fallback request
\* follows such an extraction of the same URL, each such extraction is
\* followed by the fallback request (or the request is in progress); a
\* streaming request or extraction that ended in any other error has no
\* fallback and the call raised; a URL has at most one fallback request and
\* one fallback extraction; and after a fallback request that failed, or
\* whose extraction failed, the call made no other request or extraction
\* and did not return.
C15_FallbackOnlyOnReadError ==
    /\ \A k \in FallbackRequests :
          \E n \in DOMAIN extractions :
              /\ SameUrl(extractions[n], requests[k])
              /\ extractions[n].via = "stream" /\ extractions[n].kind = "ReadError"
              /\ extractions[n].after = k - 1
    /\ \A n \in DOMAIN extractions :
          (extractions[n].via = "stream" /\ extractions[n].kind = "ReadError") =>
              \/ \E k \in FallbackRequests : SameUrl(extractions[n], requests[k])
              \/ pc = "fallback_get" /\ IsCurrent(extractions[n])
    /\ pc \in {"fallback_get", "fallback_write", "fallback_extract"} =>
          \E n \in DOMAIN extractions :
              /\ IsCurrent(extractions[n])
              /\ extractions[n].via = "stream" /\ extractions[n].kind = "ReadError"
    /\ \A n \in DOMAIN extractions :
          (extractions[n].via = "stream" /\ extractions[n].kind = "ConnectionError") =>
              /\ ~\E k \in FallbackRequests : SameUrl(extractions[n], requests[k])
              /\ Returns(extractions[n].call) = {}
              /\ extractions[n].call = calls => pc = "raised" /\ exc = "ConnectionError"
    /\ \A k \in DOMAIN requests :
          (requests[k].via = "stream" /\ requests[k].status # 200) =>
              /\ ~\E j \in FallbackRequests : SameUrl(requests[j], requests[k])
              /\ ~\E n \in DOMAIN extractions : SameUrl(extractions[n], requests[k])
    /\ \A k, j \in FallbackRequests : SameUrl(requests[k], requests[j]) => k = j
    /\ \A n, m \in DOMAIN extractions :
          (extractions[n].via = "fallback" /\ extractions[m].via = "fallback"
             /\ SameUrl(extractions[n], extractions[m])) => n = m
    /\ \A k \in FallbackRequests :
          LET failed ==
                \/ requests[k].status # 200
                \/ \E n \in DOMAIN extractions :
                      /\ SameUrl(extractions[n], requests[k])
                      /\ extractions[n].via = "fallback" /\ extractions[n].kind # "ok"
          IN  failed =>
                /\ IsLastOfItsCall(k)
                /\ Returns(requests[k].call) = {}
                /\ \A n \in DOMAIN extractions :
                      (extractions[n].call = requests[k].call /\ extractions[n].after >= k)
                          => SameUrl(extractions[n], requests[k])
                /\ requests[k].call = calls => pc = "raised"
    /\ (pc = "raised" /\ exc = "ReadError") =>
          \E n \in DOMAIN extractions :
              /\ IsCurrent(extractions[n])
              /\ extractions[n].via = "fallback" /\ extractions[n].kind = "ReadError"

\* one call raised from a streaming extraction whose connection broke, with
\* no fallback; the next call went to the fallback after a ReadError and
\* returned
C15_Witness ==
    /\ pc = "returned"
    /\ \E n \in DOMAIN extractions :
          /\ extractions[n].via = "stream" /\ extractions[n].kind = "ConnectionError"
          /\ extractions[n].call < calls
    /\ \E k \in FallbackRequests :
          /\ requests[k].call = calls
          /\ \E n \in DOMAIN extractions :
                /\ SameUrl(extractions[n], requests[k])
                /\ extractions[n].via = "fallback" /\ Complete(extractions[n])

\* ------------------------------------------------------------------------
\* Where extractions write
\* ------------------------------------------------------------------------
\* the install directory of package i, or a directory above it (os.makedirs
\* creates those), or a path below it
WithinInstallDir(path, i) ==
    LET dir == RStripSep(NormPath(InstallPath(cur, i)))
    IN  path \in Ancestors(dir) \/ StrictlyBelow(path, dir)

\* C16: the members that reach the disk, by either path, are those the
\* filter let through, so that nothing is ever written outside the install
\* directory of a package: every path that was not on disk when the process
\* started lies in the install directory of some package (or is that
\* directory, or one made above it).
C16_NoWriteOutsideInstallDir ==
    \A p \in fs \ fs0 :
        \E i \in 1..Len(yf) : "install_path" \in DOMAIN yf[i] /\ WithinInstallDir(p, i)

\* ------------------------------------------------------------------------
\* The already-installed state
\* ------------------------------------------------------------------------
\* C17: a package whose variable is absent or the sentinel, and whose final
\* data directory has an entry, when its iteration starts: takes the
\* already-installed branch, no request is issued for it in that call, its
\* variable is written with the final path, the report of the call gives
\* that path with pre_installed = TRUE, and when its iteration ends the
\* entries below the final data directory are those it found.
C17_AlreadyInstalled ==
    \A k \in DOMAIN resolved :
        LET e == resolved[k]
            final_path == FinalPath(cur, e.pkg)
            entry == [path |-> final_path, pre_installed |-> TRUE]
        IN  (e.pre_set \in {None, Sentinel} /\ e.entries # {}) =>
              /\ e.branch = "installed"
              /\ ~\E r \in DOMAIN requests :
                    requests[r].call = e.call /\ requests[r].pkg = e.pkg
              /\ \E w \in DOMAIN envwrites :
                    /\ envwrites[w].call = e.call /\ envwrites[w].pkg = e.pkg
                    /\ envwrites[w].val = final_path
              /\ e.call = calls => result[EnvVarOf(e.pkg)] = entry
              /\ \A a \in Returns(e.call) : returned[a].report[EnvVarOf(e.pkg)] = entry
              /\ (k = Len(resolved) /\ e.call = calls /\ pc = "loop" /\ pkg = e.pkg + 1)
                    => Below(fs, final_path) = e.entries

\* a call returned after finding installed a package whose variable held
\* the sentinel
C17_Witness ==
    /\ pc = "returned"
    /\ \E k \in DOMAIN resolved :
          /\ resolved[k].call = calls /\ resolved[k].branch = "installed"
          /\ resolved[k].pre_set = Sentinel /\ resolved[k].entries # {}
          /\ Get(environ, EnvVarOf(resolved[k].pkg)) = FinalPath(cur, resolved[k].pkg)

\* ------------------------------------------------------------------------
\* A run after an aborted install
\* ------------------------------------------------------------------------
\* call c raised while package i was being installed
AbortedInstall(c, i) ==
    /\ TookBranch(c, i, "install")
    /\ Returns(c) = {}
    /\ c < calls \/ pc = "raised"
    /\ ~\E w \in DOMAIN envwrites : envwrites[w].call = c /\ envwrites[w].pkg = i

\* C18: when a call raised while installing a package, and a later call
\* finds that package's variable unset and an entry in its final data
\* directory, the later call takes the already-installed branch for it:
\* the variable is written with the final path, the report gives that path
\* with pre_installed = TRUE, and no URL of the package is requested in the
\* later call, those the aborted call never extracted included.
C18_AbortedInstallTakenAsInstalled ==
    \A k \in DOMAIN resolved :
        LET e == resolved[k]
            final_path == FinalPath(cur, e.pkg)
            entry == [path |-> final_path, pre_installed |-> TRUE]
        IN  (/\ \E c \in 1..(e.call - 1) : AbortedInstall(c, e.pkg)
             /\ ~IsSetValue(e.pre_set)
             /\ e.entries # {}) =>
              /\ e.branch = "installed"
              /\ ~\E r \in DOMAIN requests :
                    requests[r].call = e.call /\ requests[r].pkg = e.pkg
              /\ \E w \in DOMAIN envwrites :
                    /\ envwrites[w].call = e.call /\ envwrites[w].pkg = e.pkg
                    /\ envwrites[w].val = final_path
              /\ e.call = calls => /\ result[EnvVarOf(e.pkg)] = entry
                                   /\ Get(environ, EnvVarOf(e.pkg)) = final_path
              /\ \A a \in Returns(e.call) : returned[a].report[EnvVarOf(e.pkg)] = entry

\* the first call raised at the second URL of a package, after the first
\* URL had left one entry in its final data directory; the second call
\* returned, and some URL of the package was never extracted to its end
C18_Witness ==
    /\ pc = "returned" /\ calls = 2
    /\ \E k \in DOMAIN resolved :
          LET e == resolved[k] IN
          /\ e.call = 2 /\ AbortedInstall(1, e.pkg) /\ e.branch = "installed"
          /\ Cardinality(e.entries) = 1
          /\ Len(DataUrls(e.pkg)) = 2
          /\ ExtractedAt(1, e.pkg, 1) # {}
          /\ ExtractedAt(1, e.pkg, 2) = {}
          /\ \E r \in DOMAIN requests :
                /\ requests[r].call = 1 /\ requests[r].url = DataUrls(e.pkg)[2]
                /\ requests[r].status # 200

\* ------------------------------------------------------------------------
\* A configuration entry without a required field
\* ------------------------------------------------------------------------
Defective(i) == ~(RequiredFields \subseteq DOMAIN yf[i])

\* C19: when an entry of the configuration lacks a required field, every
\* call raises KeyError on reaching it and returns nothing: the loop never
\* passes the entry, and no branch is taken, no request issued, no
\* directory made and no variable written for it, whatever its variable
\* holds.
C19_MissingFieldFails ==
    \A i \in 1..Len(yf) :
        Defective(i) =>
            /\ returned = <<>>
            /\ pkg <= i
            /\ pc # "returned"
            /\ (pkg = i /\ pc # "loop") => (pc = "raised" /\ exc = "KeyError")
            /\ ~\E k \in DOMAIN resolved : resolved[k].pkg = i
            /\ ~\E k \in DOMAIN requests : requests[k].pkg = i
            /\ ~\E k \in DOMAIN mkdirs : mkdirs[k].pkg = i
            /\ ~\E k \in DOMAIN envwrites : envwrites[k].pkg = i
            /\ ~\E k \in DOMAIN extractions : extractions[k].pkg = i

\* a call raised KeyError at a defective second entry whose variable holds
\* a path of the user's, after the first package had been installed
C19_Witness ==
    /\ pc = "raised" /\ exc = "KeyError" /\ pkg = 2 /\ Defective(2)
    /\ Get(environ, yf[2].environment_variable) = Custom
    /\ \E w \in DOMAIN envwrites : envwrites[w].call = calls /\ envwrites[w].pkg = 1

\* ------------------------------------------------------------------------
\* The environment
\* ------------------------------------------------------------------------
NamedBy(v) == { i \in 1..Len(yf) : "environment_variable" \in DOMAIN yf[i] /\ EnvVarOf(i) = v }

\* C20: every write to the environment is that of a package's own variable,
\* with that package's final data directory, made once, in the iteration of
\* that package, in the already-installed or the needs-install branch; a
\* variable whose value differs from the one the process started with is
\* named by a package and holds what such a write gave it; the variable of a
\* package that took the pre-set branch holds what that branch found.
C20_EnvironmentFrame ==
    /\ \A w \in DOMAIN envwrites :
          LET e == envwrites[w] IN
          /\ e.pkg \in NamedBy(e.var)
          /\ e.val = FinalPath(cur, e.pkg)
          /\ TookBranch(e.call, e.pkg, "installed") \/ TookBranch(e.call, e.pkg, "install")
          /\ ~TookBranch(e.call, e.pkg, "pre_set")
          /\ e.call = calls => e.pkg < pkg
          /\ \A x \in DOMAIN envwrites :
                (envwrites[x].call = e.call /\ envwrites[x].pkg = e.pkg) => x = w
    /\ \A v \in DOMAIN environ \cup DOMAIN env0 :
          Get(environ, v) # Get(env0, v) =>
              /\ NamedBy(v) # {}
              /\ \E w \in DOMAIN envwrites :
                    envwrites[w].var = v /\ envwrites[w].val = Get(environ, v)
    /\ \A k \in DOMAIN resolved :
          resolved[k].branch = "pre_set" =>
              Get(environ, EnvVarOf(resolved[k].pkg)) = resolved[k].pre_set

\* a call returned after writing one variable, taking the pre-set branch
\* for another package, and with a variable no package names in the
\* environment
C20_Witness ==
    /\ pc = "returned"
    /\ envwrites # <<>>
    /\ \E k \in DOMAIN resolved : resolved[k].branch = "pre_set" /\ resolved[k].call = calls
    /\ \E v \in DOMAIN environ \ {"HOME"} : NamedBy(v) = {} /\ environ[v] = Custom
    /\ environ["HOME"] = env0["HOME"]

====
